---- MODULE Spec2Model ----
(***************************************************************************)
(* Model of Feedback_Analysis/feedback_classifier.py: keyword-rule         *)
(* labelling of a table (apply_rules), the streamed classification call    *)
(* (call_spark_api), the reply sanitizer (postprocess_llm_output) and the  *)
(* fallback pass (llm_fill_unmatched) sequenced by main.                   *)
(*                                                                         *)
(* A Python str is a sequence of one-character strings.  The full-width    *)
(* brackets of the source are written "[" and "]", the separator is ",",   *)
(* the only whitespace character is " ".  Rows are numbered from 1.        *)
(***************************************************************************)
EXTENDS Integers, Sequences, FiniteSets, TLC

VARIABLES
    \* ---- main(): one run of the pipeline
    rules,              \* config["rules"]
    strategy,           \* args.strategy
    mode,               \* args.mode
    api_key,            \* get_api_key(config)
    df,                 \* the table being labelled: rows [content, module]
    pc,                 \* position of main()
    match_count,        \* apply_rules' second result
    unmatched_indices,  \* llm_fill_unmatched's list of rows to classify
    pos,                \* llm_fill_unmatched's loop position (idx + 1)
    \* ---- history of the run, read only by the properties
    df_in,              \* the table as read from the input file
    df_rules,           \* the table returned by apply_rules
    calls,              \* rows passed to call_spark_api, in call order
    replies,            \* what each of those calls returned
    entered,            \* whether main() called llm_fill_unmatched
    \* ---- map_text_to_label applied to one text
    mt_text, mt_rules, mt_strategy, mt_ret,
    \* ---- call_spark_api applied to one response stream
    cs_lines, cs_key, cs_ret,
    \* ---- postprocess_llm_output applied to one reply
    raw_output, pp_ret

vars == << rules, strategy, mode, api_key, df, pc, match_count,
           unmatched_indices, pos, df_in, df_rules, calls, replies, entered,
           mt_text, mt_rules, mt_strategy, mt_ret,
           cs_lines, cs_key, cs_ret, raw_output, pp_ret >>

mainVars == << rules, strategy, mode, api_key, df, pc, match_count,
               unmatched_indices, pos, df_in, df_rules, calls, replies, entered >>
mtVars == << mt_text, mt_rules, mt_strategy, mt_ret >>
csVars == << cs_lines, cs_key, cs_ret >>
ppVars == << raw_output, pp_ret >>

(***************************************************************************)
(* Bounds of the model.                                                    *)
(***************************************************************************)
MaxRows == 2        \* rows of the table
MaxRules == 2       \* rules of a rule set given to map_text_to_label
MaxLines == 3       \* lines of a response stream
MaxReplyLen == 5    \* characters of a reply given to the sanitizer

(***************************************************************************)
(* Values.                                                                 *)
(***************************************************************************)
\* Python None and pandas NaN: a missing cell, an absent result.
None == << "None" >>
\* An exception that leaves the function (neither caught nor a return value).
Raised == << "raise" >>
\* requests.exceptions.RequestException inside call_spark_api's outer try.
RequestException == << "RequestException" >>
\* The result of a call that has not been made yet.
Unset == << "unset" >>

\* pd.isna
isna(v) == v = None

\* Python truthiness of an Optional[str]
truthy(v) == v # None /\ v # << >>

RECURSIVE lstrip(_)
lstrip(s) == IF s # << >> /\ Head(s) = " " THEN lstrip(Tail(s)) ELSE s

RECURSIVE rstrip(_)
rstrip(s) ==
    IF s # << >> /\ s[Len(s)] = " " THEN rstrip(SubSeq(s, 1, Len(s) - 1)) ELSE s

\* str.strip()
strip(s) == rstrip(lstrip(s))

\* Python's `sub in s`
contains(sub, s) ==
    \E i \in 0 .. (Len(s) - Len(sub)) : SubSeq(s, i + 1, i + Len(sub)) = sub

\* str.find(c, start) for a one-character c: a 0-based index, or -1
find(s, c, start) ==
    LET at == { i \in start .. (Len(s) - 1) : s[i + 1] = c }
    IN  IF at = {} THEN -1 ELSE CHOOSE i \in at : \A j \in at : i <= j

\* sep.join(parts)
RECURSIVE join(_, _)
join(sep, parts) ==
    IF parts = << >> THEN << >>
    ELSE IF Len(parts) = 1 THEN parts[1]
    ELSE parts[1] \o sep \o join(sep, Tail(parts))

\* list(dict.fromkeys(xs)): first occurrences, in order
RECURSIVE fromkeys(_)
fromkeys(xs) ==
    IF xs = << >> THEN << >>
    ELSE LET init == fromkeys(SubSeq(xs, 1, Len(xs) - 1))
             last == xs[Len(xs)]
         IN  IF \E k \in 1 .. Len(init) : init[k] = last
             THEN init ELSE Append(init, last)

\* All sequences over S of length at most n
SeqsUpTo(S, n) == UNION { [1 .. k -> S] : k \in 0 .. n }

(***************************************************************************)
(* postprocess_llm_output and extract_text_inside_brackets.                *)
(***************************************************************************)
\* The refusal sentence tested at line 171, shortened to two characters.
SafetyPhrase == << "r", "u" >>
\* The label returned for a refusal (line 172).
OtherLabel == << "o", ":" >>

extract_text_inside_brackets(text) ==
    IF ~truthy(text) THEN None
    ELSE LET start == find(text, "[", 0)
             end == IF start # -1 THEN find(text, "]", start + 1) ELSE -1
         IN  IF start # -1 /\ end # -1 /\ end > start + 1
             THEN LET inner == strip(SubSeq(text, start + 2, end))
                  IN  IF inner # << >> THEN inner ELSE None
             ELSE None

\* A plausible slip: the bracketed label is extracted before the refusal test.
postprocess_llm_output_BracketsFirst(raw) ==
    IF ~truthy(raw) THEN << >>
    ELSE LET normalized == strip(raw)
             inner == extract_text_inside_brackets(normalized)
         IN  IF inner # None THEN inner
             ELSE IF contains(SafetyPhrase, normalized) THEN OtherLabel
             ELSE normalized

\* A plausible slip: the inner text is returned untrimmed, and the reply too.
postprocess_llm_output_NoTrim(raw) ==
    IF ~truthy(raw) THEN << >>
    ELSE IF contains(SafetyPhrase, raw) THEN OtherLabel
    ELSE LET start == find(raw, "[", 0)
             end == IF start # -1 THEN find(raw, "]", start + 1) ELSE -1
         IN  IF start # -1 /\ end # -1 /\ end > start + 1
             THEN SubSeq(raw, start + 2, end)
             ELSE raw

postprocess_llm_output(raw) ==
    IF ~truthy(raw) THEN << >>
    ELSE LET normalized == strip(raw)
         IN  IF contains(SafetyPhrase, normalized) THEN OtherLabel
             ELSE LET inner == extract_text_inside_brackets(normalized)
                  IN  IF inner # None THEN inner ELSE normalized

(***************************************************************************)
(* call_spark_api.  A line of the response stream is one of                *)
(*   blank      an empty line (skipped by `if line:`)                      *)
(*   done       "[DONE]", with or without the "data: " prefix              *)
(*   delta      a JSON object whose choices[0].delta.content is `content`  *)
(*   nochoices  a JSON object without choices, or with an empty list       *)
(*   garbage    not JSON: json.loads raises JSONDecodeError                *)
(*   nonobject  JSON of another shape (null, a number, a choice that is    *)
(*              not an object): TypeError or AttributeError, not caught    *)
(*   neterror   the connection fails here: iter_lines (or, as the first    *)
(*              line, requests.post / raise_for_status) raises a           *)
(*              RequestException                                           *)
(***************************************************************************)
Line(kind, content) == [kind |-> kind, content |-> content]

RECURSIVE iter_lines(_, _)
iter_lines(lines, full_response) ==
    IF lines = << >> THEN full_response
    ELSE LET line == Head(lines)
         IN  CASE line.kind = "neterror" -> RequestException
               [] line.kind = "blank" -> iter_lines(Tail(lines), full_response)
               [] line.kind = "done" -> full_response
               [] line.kind = "garbage" -> iter_lines(Tail(lines), full_response)
               [] line.kind = "nonobject" -> Raised
               [] line.kind = "nochoices" -> iter_lines(Tail(lines), full_response)
               [] line.kind = "delta" ->
                    iter_lines(Tail(lines),
                               IF line.content # << >>
                               THEN full_response \o line.content
                               ELSE full_response)

call_spark_api(lines, key) ==
    IF key = << >> THEN << >>
    ELSE LET full_response == iter_lines(lines, << >>)
         IN  IF full_response = RequestException THEN << >>
             ELSE IF full_response = Raised THEN Raised
             ELSE strip(full_response)

(***************************************************************************)
(* apply_rules and its map_text_to_label.                                  *)
(* A rule is [label, keywords]; a rule without "label" has label "".       *)
(***************************************************************************)
Rule(label, keywords) == [label |-> label, keywords |-> keywords]

\* Lines 214-218: some keyword of the rule, trimmed and non-empty, is in the text
rule_hits(rule, source_text) ==
    \E k \in 1 .. Len(rule.keywords) :
        LET kw_str == strip(rule.keywords[k])
        IN  kw_str # << >> /\ contains(kw_str, source_text)

\* Lines 212-221: the loop over the rules.  `early` says that the loop
\* returned from inside (strategy "first", a hit); hits is the list so far.
RECURSIVE rule_loop(_, _, _, _)
rule_loop(rs, source_text, hits, strat) ==
    IF rs = << >> THEN [early |-> FALSE, hits |-> hits]
    ELSE LET label == strip(Head(rs).label)
             hits2 == IF rule_hits(Head(rs), source_text)
                      THEN Append(hits, label) ELSE hits
         IN  IF strat = "first" /\ hits2 # << >>
             THEN [early |-> TRUE, hits |-> hits2]
             ELSE rule_loop(Tail(rs), source_text, hits2, strat)

\* A plausible slip: no early return, and the last hit wins under "first".
map_text_to_label_LastHit(text, rs, strat) ==
    LET source_text == IF isna(text) THEN << >> ELSE text
        hits == rule_loop(rs, source_text, << >>, "all").hits
    IN  IF hits # << >> THEN hits[Len(hits)] ELSE None

\* The value map_text_to_label returns (lines 208-227).
map_text_to_label(text, rs, strat) ==
    LET source_text == IF isna(text) THEN << >> ELSE text
        loop == rule_loop(rs, source_text, << >>, strat)
    IN  IF loop.early THEN loop.hits[1]
        ELSE IF strat = "all"
        THEN LET unique_hits == fromkeys(loop.hits)
             IN  IF unique_hits # << >> THEN join(<< "," >>, unique_hits) ELSE None
        ELSE None

\* Whether map_text_to_label increments match_count (lines 220 and 225).
map_text_counts(text, rs, strat) ==
    LET source_text == IF isna(text) THEN << >> ELSE text
        loop == rule_loop(rs, source_text, << >>, strat)
    IN  loop.early \/ (strat = "all" /\ fromkeys(loop.hits) # << >>)

Row(content, module) == [content |-> content, module |-> module]

\* apply_rules (lines 187-237): the new table and match_count.  An empty
\* table comes back unchanged with a count of 0 (line 196).
apply_rules(d, rs, strat, md) ==
    LET mapped == [i \in 1 .. Len(d) |-> map_text_to_label(d[i].content, rs, strat)]
        out == [i \in 1 .. Len(d) |->
                  Row(d[i].content,
                      IF md = "overwrite"
                      THEN IF ~isna(mapped[i]) THEN mapped[i] ELSE d[i].module
                      ELSE mapped[i])]
    IN  [out |-> out,
         match_count |->
            Cardinality({ i \in 1 .. Len(d) : map_text_counts(d[i].content, rs, strat) })]

(***************************************************************************)
(* llm_fill_unmatched.                                                     *)
(***************************************************************************)
\* The emptiness test of lines 261-262 and 280.
is_blank(v) == isna(v) \/ strip(v) = << >>

\* Lines 257-263: the rows to classify, ascending.
RECURSIVE scan_unmatched(_, _)
scan_unmatched(d, i) ==
    IF i > Len(d) THEN << >>
    ELSE IF is_blank(d[i].module) /\ ~is_blank(d[i].content)
         THEN << i >> \o scan_unmatched(d, i + 1)
         ELSE scan_unmatched(d, i + 1)

\* A plausible slip: the guard `if processed:` is missing.
llm_write_Unguarded(current_value, processed, md) ==
    IF md = "overwrite" THEN processed
    ELSE IF is_blank(current_value) THEN processed
    ELSE current_value \o << "," >> \o processed

\* Lines 275-283: the target cell after one classified row.
llm_write(current_value, processed, md) ==
    IF processed # << >>
    THEN IF md = "overwrite" THEN processed
         ELSE IF is_blank(current_value) THEN processed
         ELSE current_value \o << "," >> \o processed
    ELSE current_value

(***************************************************************************)
(* Inputs.                                                                 *)
(***************************************************************************)
Strategies == { "first", "all" }
Modes == { "overwrite", "append" }

\* Content cells: missing, a text the rules know, a text no rule knows,
\* whitespace only.
Contents == { None, << "a" >>, << "c" >>, << " " >> }
\* Target cells of the input file: missing, labelled, whitespace only
\* (pandas reads an empty field as NaN, never as "").
Modules == { None, << "X" >>, << " " >> }
Rows == { Row(c, m) : c \in Contents, m \in Modules }

\* Rule sets of a run: none, one rule, two rules hitting the same text,
\* a rule whose label is blank (rule.get("label", "") of line 213).
RuleSets ==
    { << >>,
      << Rule(<< "A" >>, << << "a" >> >>) >>,
      << Rule(<< "A" >>, << << "a" >> >>), Rule(<< "B" >>, << << "a" >> >>) >>,
      << Rule(<< >>, << << "a" >> >>) >> }

\* Response streams of a run: an empty reply, a bracketed label, a refusal,
\* a connection failure, a frame of an unexpected JSON shape.
Streams ==
    { << >>,
      << Line("delta", << "[", "B" >>), Line("garbage", << >>),
         Line("delta", << "]" >>), Line("done", << >>) >>,
      << Line("delta", SafetyPhrase) >>,
      << Line("neterror", << >>) >>,
      << Line("nonobject", << >>) >> }

ApiKeys == { << >>, << "k" >> }

\* Inputs of map_text_to_label.
Texts == { None, << >>, << "a" >>, << "b" >>, << "a", "b" >>,
           << "a", " ", "b" >>, << "c" >>, << " " >> }
Labels == { << "A" >>, << "B", " " >>, << >> }
KeywordLists == { << >>, << << "a" >> >>, << << " ", "b" >> >>, << << " " >> >>,
                  << << "c" >>, << "a" >> >> }
RuleUniverse == { Rule(l, k) : l \in Labels, k \in KeywordLists }

\* Lines of a response stream given to call_spark_api.
LineUniverse ==
    { Line(k, << >>) : k \in { "blank", "done", "garbage", "nochoices",
                              "nonobject", "neterror", "delta" } }
    \cup { Line("delta", c) : c \in { << "A" >>, << " " >>, << "B" >> } }

\* Characters of a reply given to the sanitizer.
ReplyChars == { "[", "]", " ", "x", "y", "r", "u" }

(***************************************************************************)
(* The state of each part before it runs.                                  *)
(***************************************************************************)
MainIdle ==
    /\ rules = << >> /\ strategy = "all" /\ mode = "append" /\ api_key = << >>
    /\ df = << >> /\ pc = "idle" /\ match_count = 0
    /\ unmatched_indices = << >> /\ pos = 1
    /\ df_in = << >> /\ df_rules = << >> /\ calls = << >> /\ replies = << >>
    /\ entered = FALSE
MtIdle == mt_text = None /\ mt_rules = << >> /\ mt_strategy = "all" /\ mt_ret = Unset
CsIdle == cs_lines = << >> /\ cs_key = << >> /\ cs_ret = Unset
PpIdle == raw_output = None /\ pp_ret = Unset

(***************************************************************************)
(* main(): lines 306-367.                                                  *)
(***************************************************************************)
Init ==
    /\ rules \in RuleSets
    /\ strategy \in Strategies
    /\ mode \in Modes
    /\ api_key \in ApiKeys
    /\ df \in SeqsUpTo(Rows, MaxRows)
    /\ df_in = df
    /\ pc = "start"
    /\ match_count = 0
    /\ unmatched_indices = << >> /\ pos = 1
    /\ df_rules = << >> /\ calls = << >> /\ replies = << >>
    /\ entered = FALSE
    /\ MtIdle /\ CsIdle /\ PpIdle

\* Lines 335-342: the rule pass.
ApplyRules ==
    /\ pc = "start"
    /\ LET r == apply_rules(df, rules, strategy, mode)
       IN  /\ df' = r.out
           /\ df_rules' = r.out
           /\ match_count' = r.match_count
    /\ pc' = "rules_done"
    /\ UNCHANGED << rules, strategy, mode, api_key, unmatched_indices, pos,
                    df_in, calls, replies, entered, mtVars, csVars, ppVars >>

\* Lines 344-347, 356-358: unmatched_count = total_rows - match_count is 0.
SkipFallback ==
    /\ pc = "rules_done"
    /\ ~(Len(df_in) - match_count > 0)
    /\ pc' = "done"
    /\ UNCHANGED << rules, strategy, mode, api_key, df, match_count,
                    unmatched_indices, pos, df_in, df_rules, calls, replies,
                    entered, mtVars, csVars, ppVars >>

\* Lines 347-355 and 247-263: llm_fill_unmatched is called and scans the table.
EnterFallback ==
    /\ pc = "rules_done"
    /\ Len(df_in) - match_count > 0
    /\ unmatched_indices' = scan_unmatched(df, 1)
    /\ pos' = 1
    /\ entered' = TRUE
    /\ pc' = "fallback"
    /\ UNCHANGED << rules, strategy, mode, api_key, df, match_count, df_in,
                    df_rules, calls, replies, mtVars, csVars, ppVars >>

\* Lines 268-283: one iteration of the loop, with the stream the service sends.
LlmStep ==
    /\ pc = "fallback"
    /\ pos <= Len(unmatched_indices)
    /\ \E lines \in Streams :
         LET row_idx == unmatched_indices[pos]
             llm_result == call_spark_api(lines, api_key)
         IN  /\ calls' = Append(calls, row_idx)
             /\ replies' = Append(replies, llm_result)
             /\ IF llm_result = Raised
                THEN /\ pc' = "aborted"
                     /\ UNCHANGED << df, pos >>
                ELSE /\ df' = [df EXCEPT ![row_idx].module =
                                 llm_write(df[row_idx].module,
                                           postprocess_llm_output(llm_result), mode)]
                     /\ pos' = pos + 1
                     /\ pc' = "fallback"
    /\ UNCHANGED << rules, strategy, mode, api_key, match_count,
                    unmatched_indices, df_in, df_rules, entered,
                    mtVars, csVars, ppVars >>

\* Line 285: the loop is over and llm_fill_unmatched returns.
ReturnFallback ==
    /\ pc = "fallback"
    /\ pos > Len(unmatched_indices)
    /\ pc' = "done"
    /\ UNCHANGED << rules, strategy, mode, api_key, df, match_count,
                    unmatched_indices, pos, df_in, df_rules, calls, replies,
                    entered, mtVars, csVars, ppVars >>

Next == ApplyRules \/ SkipFallback \/ EnterFallback \/ LlmStep \/ ReturnFallback

Spec == Init /\ [][Next]_vars

(***************************************************************************)
(* map_text_to_label on one text and one rule set.                         *)
(***************************************************************************)
InitMap ==
    /\ mt_text \in Texts
    /\ mt_rules \in SeqsUpTo(RuleUniverse, MaxRules)
    /\ mt_strategy \in Strategies
    /\ mt_ret = Unset
    /\ MainIdle /\ CsIdle /\ PpIdle

MapText ==
    /\ mt_ret = Unset
    /\ mt_ret' = map_text_to_label(mt_text, mt_rules, mt_strategy)
    /\ UNCHANGED << mt_text, mt_rules, mt_strategy, mainVars, csVars, ppVars >>

SpecMap == InitMap /\ [][MapText]_vars

(***************************************************************************)
(* call_spark_api on one response stream.                                  *)
(***************************************************************************)
InitApi ==
    /\ cs_lines \in SeqsUpTo(LineUniverse, MaxLines)
    /\ cs_key \in ApiKeys
    /\ cs_ret = Unset
    /\ MainIdle /\ MtIdle /\ PpIdle

CallSparkApi ==
    /\ cs_ret = Unset
    /\ cs_ret' = call_spark_api(cs_lines, cs_key)
    /\ UNCHANGED << cs_lines, cs_key, mainVars, mtVars, ppVars >>

SpecApi == InitApi /\ [][CallSparkApi]_vars

(***************************************************************************)
(* postprocess_llm_output on one reply.                                    *)
(***************************************************************************)
InitSan ==
    /\ raw_output \in { None } \cup SeqsUpTo(ReplyChars, MaxReplyLen)
    /\ pp_ret = Unset
    /\ MainIdle /\ MtIdle /\ CsIdle

Postprocess ==
    /\ pp_ret = Unset
    /\ pp_ret' = postprocess_llm_output(raw_output)
    /\ UNCHANGED << raw_output, mainVars, mtVars, csVars >>

SpecSan == InitSan /\ [][Postprocess]_vars

(***************************************************************************)
(* Properties of the run (specification Spec).                             *)
(***************************************************************************)
\* The label the rule pass computes for row i of the input table.
RuleLabel(i) == map_text_to_label(df_in[i].content, rules, strategy)

\* Two cell values that are the same, or both effectively empty.
SameCell(x, y) == x = y \/ (is_blank(x) /\ is_blank(y))

\* The merge the specification gives for APPEND.
AppendNext(current, new) ==
    IF is_blank(current) THEN new
    ELSE IF truthy(new) THEN current \o << "," >> \o new
    ELSE current

\* The merge the specification gives for OVERWRITE.
OverwriteNext(current, new) == IF truthy(new) THEN new ELSE current

\* The calls that returned, as indices into calls / replies.
Returned == { k \in 1 .. Len(replies) : replies[k] # Raised }

\* C1: in APPEND mode every row's target cell after the rule pass is the
\* APPEND merge of its input value with the rule label, and after a
\* classification it is the APPEND merge of its post-rule value with the
\* sanitized reply; a pre-existing label is never lost.
C1_AppendMerge ==
    (mode = "append" /\ pc \notin { "idle", "start" }) =>
        /\ \A i \in 1 .. Len(df_in) :
             SameCell(df_rules[i].module, AppendNext(df_in[i].module, RuleLabel(i)))
        /\ \A k \in Returned :
             SameCell(df[calls[k]].module,
                      AppendNext(df_rules[calls[k]].module,
                                 postprocess_llm_output(replies[k])))

\* C2: in OVERWRITE mode the target cell is replaced by the new label only
\* when that label is non-null and non-empty, in the rule pass and in the
\* fallback pass; otherwise it keeps exactly the value it had.
C2_OverwriteOnlyNonEmpty ==
    (mode = "overwrite" /\ pc \notin { "idle", "start" }) =>
        /\ \A i \in 1 .. Len(df_in) :
             df_rules[i].module = OverwriteNext(df_in[i].module, RuleLabel(i))
        /\ \A k \in Returned :
             df[calls[k]].module =
                 OverwriteNext(df_rules[calls[k]].module,
                               postprocess_llm_output(replies[k]))

\* The rows the fallback pass has to classify, by the state after the rule pass.
NeedsFallback ==
    { i \in 1 .. Len(df_rules) :
        is_blank(df_rules[i].module) /\ ~is_blank(df_rules[i].content) }

\* C5: a completed run has called the classification service exactly once
\* for each row whose target cell is empty after the rule pass and whose
\* content is non-empty, in ascending row order, and for no other row.
C5_CallsExactlyUnmatched ==
    pc = "done" =>
        /\ { calls[k] : k \in 1 .. Len(calls) } = NeedsFallback
        /\ Len(calls) = Cardinality(NeedsFallback)
        /\ \A j, k \in 1 .. Len(calls) : j < k => calls[j] < calls[k]

\* C6: a row whose target cell is non-empty in the input is never sent to
\* the classification service and never written by the fallback pass.
C6_LabelledRowsNotForwarded ==
    \A i \in 1 .. Len(df_in) :
        ~is_blank(df_in[i].module) =>
            /\ \A k \in 1 .. Len(calls) : calls[k] # i
            /\ pc \in { "fallback", "done", "aborted" } =>
                   df[i].module = df_rules[i].module

\* C7: a call that yields the empty string leaves its row's target cell as
\* the rule pass left it, the pass goes on (only an exception stops it, and a
\* returned pass has called every forwarded row), and when every call
\* yields the empty string the final table is the table after the rule pass.
C7_EmptyReplyLeavesCell ==
    /\ \A k \in 1 .. Len(calls) :
         replies[k] = << >> => df[calls[k]].module = df_rules[calls[k]].module
    /\ pc = "aborted" => replies[Len(replies)] = Raised
    /\ pc = "fallback" => calls = SubSeq(unmatched_indices, 1, pos - 1)
    /\ (pc = "done" /\ entered) => calls = unmatched_indices
    /\ (pc = "done" /\ \A k \in 1 .. Len(replies) : replies[k] = << >>) =>
           df = df_rules

\* A run in which the first call yields nothing, the cell stays as it was,
\* and the second row is still classified.
C7_Witness ==
    /\ pc = "done"
    /\ Len(calls) = 2
    /\ replies[1] = << >>
    /\ df[calls[1]].module = None
    /\ replies[2] = << "[", "B", "]" >>
    /\ df[calls[2]].module = << "B" >>

(***************************************************************************)
(* Properties of map_text_to_label (specification SpecMap).                *)
(***************************************************************************)
MtSource == IF isna(mt_text) THEN << >> ELSE mt_text

\* Rules with a keyword that is, as written, a substring of the text.
MatchingRaw ==
    { i \in 1 .. Len(mt_rules) :
        \E k \in 1 .. Len(mt_rules[i].keywords) :
            ~isna(mt_text) /\ contains(mt_rules[i].keywords[k], mt_text) }

\* Rules with a keyword that, trimmed, is non-empty and a substring of the text.
MatchingTrimmed ==
    { i \in 1 .. Len(mt_rules) :
        \E k \in 1 .. Len(mt_rules[i].keywords) :
            /\ strip(mt_rules[i].keywords[k]) # << >>
            /\ contains(strip(mt_rules[i].keywords[k]), MtSource) }

Earliest(S) == CHOOSE i \in S : \A j \in S : i <= j

\* C3 as stated: under FIRST the result is the label of the earliest rule
\* with a keyword contained in the text, and null when there is none.
C3_FirstEarliestAsWritten ==
    (mt_strategy = "first" /\ mt_ret # Unset) =>
        IF MatchingRaw = {} THEN mt_ret = None
        ELSE mt_ret = strip(mt_rules[Earliest(MatchingRaw)].label)

\* C3 amended: under FIRST the result is the trimmed label of the earliest
\* rule with a keyword that, after trimming surrounding whitespace, is
\* non-empty and contained in the text; null when there is no such rule.
C3_FirstEarliestTrimmed ==
    (mt_strategy = "first" /\ mt_ret # Unset) =>
        IF MatchingTrimmed = {} THEN mt_ret = None
        ELSE mt_ret = strip(mt_rules[Earliest(MatchingTrimmed)].label)

\* Two rules hit the text and the earlier one's label is returned.
C3_Witness ==
    /\ mt_strategy = "first"
    /\ mt_text = << "a", "b" >>
    /\ mt_rules = << Rule(<< "B", " " >>, << << " ", "b" >> >>),
                     Rule(<< "A" >>, << << "a" >> >>) >>
    /\ mt_ret = << "B" >>

\* The labels of the matching rules, in rule order.
RECURSIVE MatchingLabels(_)
MatchingLabels(i) ==
    IF i > Len(mt_rules) THEN << >>
    ELSE IF i \in MatchingTrimmed
         THEN << strip(mt_rules[i].label) >> \o MatchingLabels(i + 1)
         ELSE MatchingLabels(i + 1)

\* Whether xs and ys hold the same elements and ys holds each once, in the
\* order of first occurrence in xs.
FirstSeenOrder(xs, ys) ==
    /\ { xs[k] : k \in 1 .. Len(xs) } = { ys[k] : k \in 1 .. Len(ys) }
    /\ \A j, k \in 1 .. Len(ys) : j < k =>
         /\ ys[j] # ys[k]
         /\ (CHOOSE a \in 1 .. Len(xs) : xs[a] = ys[j] /\ \A b \in 1 .. a - 1 : xs[b] # ys[j])
              < (CHOOSE a \in 1 .. Len(xs) : xs[a] = ys[k] /\ \A b \in 1 .. a - 1 : xs[b] # ys[k])

\* C4: under ALL the result is the labels of all matching rules,
\* de-duplicated in first-seen order and joined by ","; null when no rule
\* matches; never an empty string.
C4_AllUnionNeverEmpty ==
    (mt_strategy = "all" /\ mt_ret # Unset) =>
        /\ MatchingTrimmed = {} => mt_ret = None
        /\ MatchingTrimmed # {} =>
             \E ys \in SeqsUpTo(Labels \cup { strip(l) : l \in Labels }, Len(mt_rules)) :
                 /\ FirstSeenOrder(MatchingLabels(1), ys)
                 /\ mt_ret = join(<< "," >>, ys)
        /\ mt_ret # << >>

(***************************************************************************)
(* Properties of call_spark_api (specification SpecApi).                   *)
(***************************************************************************)
\* The lines before the first line that ends the reading.
RECURSIVE BeforeEnd(_)
BeforeEnd(lines) ==
    IF lines = << >> \/ Head(lines).kind \in { "done", "neterror" } THEN << >>
    ELSE << Head(lines) >> \o BeforeEnd(Tail(lines))

TransportFails ==
    /\ Len(BeforeEnd(cs_lines)) < Len(cs_lines)
    /\ cs_lines[Len(BeforeEnd(cs_lines)) + 1].kind = "neterror"

RECURSIVE Fragments(_)
Fragments(lines) ==
    IF lines = << >> THEN << >>
    ELSE (IF Head(lines).kind = "delta" THEN Head(lines).content ELSE << >>)
         \o Fragments(Tail(lines))

\* C8: the fragments of the frames before the first [DONE] or the end of the
\* stream are concatenated in order and returned (here: up to surrounding
\* whitespace); every other frame is skipped without ending the call; a
\* missing credential or a transport failure yields the empty string.
C8_FragmentsBeforeDone ==
    cs_ret # Unset =>
        IF cs_key = << >> \/ TransportFails THEN cs_ret = << >>
        ELSE cs_ret = strip(Fragments(BeforeEnd(cs_lines)))

(***************************************************************************)
(* Properties of postprocess_llm_output (specification SpecSan).           *)
(***************************************************************************)
\* s and e delimit the first bracketed span of text: the first "[" and the
\* first "]" after it.
FirstSpan(text, s, e) ==
    /\ text[s] = "[" /\ \A j \in 1 .. s - 1 : text[j] # "["
    /\ s < e
    /\ text[e] = "]" /\ \A j \in s + 1 .. e - 1 : text[j] # "]"

\* C9: for a non-empty reply without the refusal phrase, the result is the
\* trimmed inner text of the first bracketed span when that text is
\* non-empty after trimming, and the trimmed reply when the reply has no
\* bracketed span.
C9_BracketedLabel ==
    (pp_ret # Unset /\ truthy(raw_output) /\ ~contains(SafetyPhrase, raw_output)) =>
        /\ \A s, e \in 1 .. Len(raw_output) :
             (/\ FirstSpan(raw_output, s, e)
              /\ strip(SubSeq(raw_output, s + 1, e - 1)) # << >>)
             => pp_ret = strip(SubSeq(raw_output, s + 1, e - 1))
        /\ (~ \E s, e \in 1 .. Len(raw_output) :
                s < e /\ raw_output[s] = "[" /\ raw_output[e] = "]")
             => pp_ret = strip(raw_output)

\* The reply "x[y]x" (text, a bracketed label, text) yields exactly "y".
C9_Witness ==
    /\ raw_output = << "x", "[", "y", "]", "x" >>
    /\ pp_ret = << "y" >>

\* C10: a reply that contains the refusal phrase anywhere yields the fixed
\* fallback label whatever brackets it holds; an empty or absent reply
\* yields the empty string.
C10_RefusalAndEmpty ==
    pp_ret # Unset =>
        /\ (truthy(raw_output) /\ contains(SafetyPhrase, raw_output))
             => pp_ret = OtherLabel
        /\ ~truthy(raw_output) => pp_ret = << >>

\* A bracketed label followed by the refusal phrase: the label is ignored.
C10_Witness ==
    /\ raw_output = << "[", "x", "]", "r", "u" >>
    /\ pp_ret = OtherLabel

====
